---------------------------- MODULE Spec2Model ----------------------------
(***************************************************************************)
(* stock_reserve_sale/model/sale.py: sale orders and sale order lines that *)
(* can hold stock reservations.                                            *)
(*                                                                         *)
(* Records are modelled by their fields.  A line's reservation_ids         *)
(* (One2many) is the sequence of the reservations linked to it.  A         *)
(* recordset handed to a method is a sequence of records, iterated in      *)
(* order.  Stored computed fields are recomputed at the end of every       *)
(* operation that touches one of their dependencies.                       *)
(***************************************************************************)
EXTENDS Integers, Sequences, FiniteSets, TLC

\* ---------------------------------------------------------------- bounds
\* longest recordset of lines handed to one call
MaxCall == 2
\* quantities and unit prices range over 1..MaxVal
MaxVal == 2
\* most reservations linked to one line
MaxResv == 2
\* most procurement rules in the rule table
MaxRules == 2

\* ------------------------------------------------------------- universes
Orders == {"o1", "o2"}
Lines == {"l1", "l2"}
\* the lines in the order the ORM returns them (order_line, mapped)
LineList == <<"l1", "l2">>
Products == {"goods", "mto", "service"}
\* an empty product_id
NoProduct == "none"
Uoms == {"unit", "dozen"}
Routes == {"r1", "r2"}
Warehouses == {"wh1", "wh2"}
NoWarehouse == "False"

VARIABLES
    sale,             \* sale.order: state and the two stored computed flags
    line,             \* sale.order.line: its fields
    resv,             \* line -> its reservation_ids, a sequence of reservations
    rules,            \* the procurement.rule table
    routes,           \* route_ids of products, categories and warehouses
    release_unlinks,  \* whether the reservation entity deletes on release
    pc,               \* position inside _action_confirm / action_cancel
    last              \* the last call and its outcome

vars == <<sale, line, resv, rules, routes, release_unlinks, pc, last>>

\* product.type
product_type(p) == IF p = "service" THEN "service" ELSE "product"

\* order.warehouse_id
warehouse_id(o) == "wh1"

Range(s) == {s[i] : i \in DOMAIN s}

\* the non-empty recordsets of lines a call can be made on; a recordset can hold
\* a record more than once
LineSeqs == UNION {[1..n -> Lines] : n \in 1..MaxCall}

\* the recordsets without a repeated record
DistinctLineSeqs ==
    {ls \in LineSeqs : \A i, j \in DOMAIN ls : i # j => ls[i] # ls[j]}

\* ----------------------------------------------------- procurement rules
\* order='route_sequence, sequence'
rule_before(a, b) ==
    \/ a.route_sequence < b.route_sequence
    \/ a.route_sequence = b.route_sequence /\ a.sequence < b.sequence

\* search(..., order='route_sequence, sequence', limit=1): the recordsets the
\* search can return; rules with equal sort keys come in an unspecified order
search_limit1(matching) ==
    IF matching = {} THEN {<<>>}
    ELSE {<<r>> : r \in {m \in matching : \A q \in matching : ~rule_before(q, m)}}

\* the first search's domain: [('route_id', 'in', product_route_ids)]
product_domain(r, product_route_ids) == r.route_id \in product_route_ids

\* a slip in the second search's domain: the '|' taken over the last two terms
warehouse_domain_misgrouped(r, wh, wh_route_ids) ==
    \/ r.warehouse_id = wh
    \/ r.warehouse_id = NoWarehouse /\ r.route_id \in wh_route_ids

\* the second search's domain: ['|', ('warehouse_id', '=', warehouse.id),
\* ('warehouse_id', '=', False), ('route_id', 'in', wh_route_ids)]
warehouse_domain(r, wh, wh_route_ids) ==
    /\ (r.warehouse_id = wh \/ r.warehouse_id = NoWarehouse)
    /\ r.route_id \in wh_route_ids

\* SaleOrderLine._get_line_rule: the recordsets (<<>> is False) it can return
get_line_rule(p, o) ==
    LET product_route_ids ==
            IF p = NoProduct THEN {}
            ELSE routes.product[p] \cup routes.categ[p]
        first == search_limit1({r \in rules : product_domain(r, product_route_ids)})
    IN  IF first # {<<>>} THEN first
        ELSE LET wh == warehouse_id(o)
                 wh_route_ids == routes.warehouse[wh]
             IN  search_limit1({r \in rules :
                                   warehouse_domain(r, wh, wh_route_ids)})

\* SaleOrderLine._get_procure_method: the values it can return
get_procure_method(p, o) ==
    {IF rs # <<>> THEN rs[1].procure_method ELSE "False" : rs \in get_line_rule(p, o)}


\* ------------------------------------------------------- computed fields
\* a slip in _compute_is_stock_reservation: the product's type is not read
compute_ignoring_type(state, product_id, reservation_ids, procure_method) ==
    /\ ~(\/ state # "draft"
         \/ procure_method = "make_to_order"
         \/ product_id = NoProduct)
    /\ reservation_ids = <<>>

\* a slip in _compute_is_stock_reservation: the line's reservations are not read
compute_ignoring_reservations(state, product_id, reservation_ids, procure_method) ==
    ~(\/ state # "draft"
      \/ procure_method = "make_to_order"
      \/ product_id = NoProduct
      \/ product_type(product_id) = "service")

\* SaleOrderLine._compute_is_stock_reservation, for one line; procure_method
\* is what line._get_procure_method() returned
compute_is_stock_reservation(state, product_id, reservation_ids, procure_method) ==
    /\ ~(\/ state # "draft"
         \/ procure_method = "make_to_order"
         \/ product_id = NoProduct
         \/ product_type(product_id) = "service")
    /\ reservation_ids = <<>>

\* sale.order_line, in the ORM's order
order_line(ln, o) == SelectSeq(LineList, LAMBDA l : ln[l].order_id = o)

\* a slip in _compute_stock_reservation: the loop stops after the first line
compute_first_line_only(o, ln, rs, sl) ==
    LET lines == IF order_line(ln, o) = <<>> THEN {}
                 ELSE {Head(order_line(ln, o))}
        has_stock_reservation == \E l \in lines : rs[l] # <<>>
        is_stock_reservable == \E l \in lines : ln[l].is_stock_reservable
    IN  [sl[o] EXCEPT
            !.is_stock_reservable =
                IF sl[o].state \notin {"draft", "sent"} THEN FALSE
                ELSE is_stock_reservable,
            !.has_stock_reservation = has_stock_reservation]

\* SaleOrder._compute_stock_reservation, for one order: the order's new record
compute_stock_reservation(o, ln, rs, sl) ==
    LET lines == Range(order_line(ln, o))
        has_stock_reservation == \E l \in lines : rs[l] # <<>>
        is_stock_reservable == \E l \in lines : ln[l].is_stock_reservable
    IN  [sl[o] EXCEPT
            !.is_stock_reservable =
                IF sl[o].state \notin {"draft", "sent"} THEN FALSE
                ELSE is_stock_reservable,
            !.has_stock_reservation = has_stock_reservation]

\* line.state is the related field order_id.state
line_state(ln, sl, l) == sl[ln[l].order_id].state

\* the values the recomputation can give the lines' is_stock_reservable
LineFlags(ln, rs, sl) ==
    {f \in [Lines -> BOOLEAN] :
        \A l \in Lines :
            \E pm \in get_procure_method(ln[l].product_id, ln[l].order_id) :
                f[l] = compute_is_stock_reservation(
                           line_state(ln, sl, l), ln[l].product_id, rs[l], pm)}

\* the ORM's recomputation of the stored computed fields, lines first (the
\* order's flags depend on them), then the new values are stored
Recompute(ln, rs, sl) ==
    \E f \in LineFlags(ln, rs, sl) :
        LET ln2 == [l \in Lines |-> [ln[l] EXCEPT !.is_stock_reservable = f[l]]]
        IN  /\ line' = ln2
            /\ resv' = rs
            /\ sale' = [o \in Orders |-> compute_stock_reservation(o, ln2, rs, sl)]

\* ---------------------------------------------------------- reservations
\* SaleOrderLine._prepare_stock_reservation: the values of the new reservation
prepare_stock_reservation(ln, l) ==
    [product_id |-> ln[l].product_id,
     product_uom |-> ln[l].product_uom,
     product_uom_qty |-> ln[l].product_uom_qty,
     price_unit |-> ln[l].price_unit,
     sale_line_id |-> l]

\* reserv_obj.create(vals) followed by reservations.reserve(), for a
\* reservation made by acquire_stock_reservation
create_reserved(vals) ==
    [product_id |-> vals.product_id,
     product_uom |-> vals.product_uom,
     product_uom_qty |-> vals.product_uom_qty,
     price_unit |-> vals.price_unit,
     sale_line_id |-> vals.sale_line_id,
     state |-> "assigned",
     acquired |-> TRUE]

\* the loop of acquire_stock_reservation over the lines of the call; creating a
\* reservation for a line makes the ORM recompute that line's flag before the
\* next iteration reads it
RECURSIVE acquire_loop(_, _, _, _)
acquire_loop(ls, ln, rs, sl) ==
    IF ls = <<>> THEN [line |-> ln, resv |-> rs]
    ELSE LET l == Head(ls)
         IN  IF ~ln[l].is_stock_reservable
             THEN acquire_loop(Tail(ls), ln, rs, sl)
             ELSE LET vals == prepare_stock_reservation(ln, l)
                      rs2 == [rs EXCEPT ![vals.sale_line_id] =
                                            Append(@, create_reserved(vals))]
                      pm == CHOOSE m \in get_procure_method(
                                ln[l].product_id, ln[l].order_id) : TRUE
                      ln2 == [ln EXCEPT ![l].is_stock_reservable =
                                    compute_is_stock_reservation(
                                        line_state(ln, sl, l), ln[l].product_id,
                                        rs2[l], pm)]
                  IN  acquire_loop(Tail(ls), ln2, rs2, sl)

\* stock.reservation.release() on the reservations of one line: the reservation
\* entity either deletes them or cancels them in place
release(reservation_ids) ==
    IF release_unlinks THEN <<>>
    ELSE [i \in DOMAIN reservation_ids |->
             [reservation_ids[i] EXCEPT !.state = "cancel"]]

\* SaleOrderLine.release_stock_reservation on the lines ls (a set)
release_stock_reservation(ls, rs) ==
    [l \in Lines |-> IF l \in ls THEN release(rs[l]) ELSE rs[l]]

\* a slip in release_all_stock_reservation: only one order's lines are released
release_one_order(os, ln, rs) ==
    LET o == CHOOSE x \in os : TRUE
    IN  release_stock_reservation(Range(order_line(ln, o)), rs)

\* SaleOrder.release_all_stock_reservation on the orders os (a set)
release_all_stock_reservation(os, ln, rs) ==
    LET lines == UNION {Range(order_line(ln, o)) : o \in os}
    IN  release_stock_reservation(lines, rs)

\* ----------------------------------------------------------------- write
\* a slip in _test_block_on_reserve: the product's field is misnamed
test_block_misnamed(vals) ==
    DOMAIN vals \cap {"product", "product_uom_id", "type"}

\* SaleOrderLine._test_block_on_reserve
test_block_on_reserve(vals) ==
    DOMAIN vals \cap {"product_id", "product_uom_id", "type"}

\* SaleOrderLine._test_update_on_reserve
test_update_on_reserve(vals) ==
    DOMAIN vals \cap {"price_unit", "product_uom_qty"}

\* self.mapped('reservation_ids') for the lines of a call: the reservations
\* of the distinct lines, concatenated
RECURSIVE concat_reservation_ids(_, _)
concat_reservation_ids(lines, rs) ==
    IF lines = <<>> THEN <<>>
    ELSE rs[Head(lines)] \o concat_reservation_ids(Tail(lines), rs)

mapped_reservation_ids(ls, rs) ==
    concat_reservation_ids(SelectSeq(LineList, LAMBDA l : l \in Range(ls)), rs)

\* super().write(vals): the fields of sale.order.line among vals are set on
\* every line of the call; names that are no field of the line are ignored
super_write(ln, ls, vals) ==
    [l \in Lines |->
        IF l \notin Range(ls) THEN ln[l]
        ELSE [ln[l] EXCEPT
                !.product_id = IF "product_id" \in DOMAIN vals
                               THEN vals["product_id"] ELSE @,
                !.product_uom = IF "product_uom" \in DOMAIN vals
                                THEN vals["product_uom"] ELSE @,
                !.price_unit = IF "price_unit" \in DOMAIN vals
                               THEN vals["price_unit"] ELSE @,
                !.product_uom_qty = IF "product_uom_qty" \in DOMAIN vals
                                    THEN vals["product_uom_qty"] ELSE @]]

\* a slip in _update_reservation_price_qty: only the price is written
RECURSIVE update_price_only(_, _, _)
update_price_only(ls, ln, rs) ==
    IF ls = <<>> THEN [resv |-> rs, raised |-> FALSE]
    ELSE LET l == Head(ls)
         IN  IF rs[l] = <<>>
             THEN update_price_only(Tail(ls), ln, rs)
             ELSE IF Len(rs[l]) > 1
             THEN [resv |-> rs, raised |-> TRUE]
             ELSE update_price_only(
                      Tail(ls), ln,
                      [rs EXCEPT ![l] =
                          <<[rs[l][1] EXCEPT !.price_unit = ln[l].price_unit]>>])

\* SaleOrderLine._update_reservation_price_qty: the reservations when the loop
\* ends, and whether it ended by raising the UserError
RECURSIVE update_reservation_price_qty(_, _, _)
update_reservation_price_qty(ls, ln, rs) ==
    IF ls = <<>> THEN [resv |-> rs, raised |-> FALSE]
    ELSE LET l == Head(ls)
         IN  IF rs[l] = <<>>
             THEN update_reservation_price_qty(Tail(ls), ln, rs)
             ELSE IF Len(rs[l]) > 1
             THEN [resv |-> rs, raised |-> TRUE]
             ELSE update_reservation_price_qty(
                      Tail(ls), ln,
                      [rs EXCEPT ![l] =
                          <<[rs[l][1] EXCEPT
                                !.price_unit = ln[l].price_unit,
                                !.product_uom_qty = ln[l].product_uom_qty]>>])


\* ------------------------------------------------------------ the state
NoCall == [op |-> "none", lines |-> {}, orders |-> {}, keys |-> {},
           err |-> "", rule |-> <<>>, method |-> ""]

Idle == [step |-> "idle", orders |-> {}]

\* the rule table and the routes of the lifecycle specifications: product "mto"
\* has a route with a make_to_order rule, the other products fall back on the
\* warehouse's make_to_stock rule
DefaultRules ==
    {[route_id |-> "r1", route_sequence |-> 1, sequence |-> 1,
      warehouse_id |-> NoWarehouse, procure_method |-> "make_to_order"],
     [route_id |-> "r2", route_sequence |-> 2, sequence |-> 1,
      warehouse_id |-> "wh1", procure_method |-> "make_to_stock"]}

DefaultRoutes ==
    [product |-> [p \in Products |-> IF p = "mto" THEN {"r1"} ELSE {}],
     categ |-> [p \in Products |-> {}],
     warehouse |-> [w \in Warehouses |-> IF w = "wh1" THEN {"r2"} ELSE {}]]

\* both lines in order o1 (o2 has no line)
OneOrder == [l \in Lines |-> "o1"]

\* one line in each order
TwoOrders == [l \in Lines |-> IF l = "l1" THEN "o1" ELSE "o2"]

\* new draft orders with new lines of the given products, nothing reserved;
\* the stored computed fields hold their computed values
InitWith(order_ids, product_ids, rule_tables, route_configs, release_modes) ==
    /\ rules \in rule_tables
    /\ routes \in route_configs
    /\ release_unlinks \in release_modes
    /\ pc = Idle
    /\ last = NoCall
    /\ resv = [l \in Lines |-> <<>>]
    /\ \E oid \in order_ids, pid \in product_ids :
        LET sl == [o \in Orders |->
                      [state |-> "draft", has_stock_reservation |-> FALSE,
                       is_stock_reservable |-> FALSE]]
            ln == [l \in Lines |->
                      [order_id |-> oid[l], product_id |-> pid[l],
                       product_uom |-> "unit", product_uom_qty |-> 1,
                       price_unit |-> 1, is_stock_reservable |-> FALSE]]
        IN  \E f \in LineFlags(ln, resv, sl) :
              LET ln2 == [l \in Lines |->
                             [ln[l] EXCEPT !.is_stock_reservable = f[l]]]
              IN  /\ line = ln2
                  /\ sale = [o \in Orders |->
                                compute_stock_reservation(o, ln2, resv, sl)]

Static == UNCHANGED <<rules, routes, release_unlinks>>

\* ------------------------------------------------------------ operations
\* SaleOrderLine.acquire_stock_reservation on the lines ls
Acquire(ls) ==
    /\ pc.step = "idle"
    /\ LET r == acquire_loop(ls, line, resv, sale)
       IN  Recompute(r.line, r.resv, sale)
    /\ last' = [NoCall EXCEPT !.op = "acquire", !.lines = Range(ls)]
    /\ UNCHANGED pc
    /\ Static

\* SaleOrderLine.release_stock_reservation on the lines ls
Release(ls) ==
    /\ pc.step = "idle"
    /\ Recompute(line, release_stock_reservation(Range(ls), resv), sale)
    /\ last' = [NoCall EXCEPT !.op = "release"]
    /\ UNCHANGED pc
    /\ Static

\* SaleOrderLine.write(vals) on the lines ls.  A UserError raised after
\* super().write() leaves the caller with the writes made so far, unless the
\* caller's transaction is rolled back
Write(ls, vals) ==
    /\ pc.step = "idle"
    /\ UNCHANGED pc
    /\ Static
    /\ IF test_block_on_reserve(vals) # {}
          /\ Len(mapped_reservation_ids(ls, resv)) > 0
       THEN /\ last' = [NoCall EXCEPT !.op = "write", !.lines = Range(ls),
                                      !.keys = DOMAIN vals, !.err = "block"]
            /\ UNCHANGED <<sale, line, resv>>
       ELSE LET ln == super_write(line, ls, vals)
            IN  IF test_update_on_reserve(vals) # {}
                THEN LET r == update_reservation_price_qty(ls, ln, resv)
                     IN  IF r.raised
                         THEN /\ last' = [NoCall EXCEPT
                                            !.op = "write", !.lines = Range(ls),
                                            !.keys = DOMAIN vals,
                                            !.err = "several"]
                              /\ \/ Recompute(ln, r.resv, sale)
                                 \/ UNCHANGED <<sale, line, resv>>
                         ELSE /\ last' = [NoCall EXCEPT
                                            !.op = "write", !.lines = Range(ls),
                                            !.keys = DOMAIN vals]
                              /\ Recompute(ln, r.resv, sale)
                ELSE /\ last' = [NoCall EXCEPT !.op = "write", !.lines = Range(ls),
                                               !.keys = DOMAIN vals]
                     /\ Recompute(ln, resv, sale)

\* SaleOrder._action_confirm on the orders os, up to the call of super()
ActionConfirm(os) ==
    /\ pc.step = "idle"
    /\ Recompute(line, release_all_stock_reservation(os, line, resv), sale)
    /\ pc' = [step |-> "confirm", orders |-> os]
    /\ last' = [NoCall EXCEPT !.op = "confirm", !.orders = os]
    /\ Static

\* super()._action_confirm(): the orders become sale orders
SuperActionConfirm ==
    /\ pc.step = "confirm"
    /\ Recompute(line, resv,
                 [o \in Orders |-> IF o \in pc.orders
                                   THEN [sale[o] EXCEPT !.state = "sale"]
                                   ELSE sale[o]])
    /\ pc' = Idle
    /\ UNCHANGED last
    /\ Static

\* SaleOrder.action_cancel on the orders os, up to the call of super()
ActionCancel(os) ==
    /\ pc.step = "idle"
    /\ Recompute(line, release_all_stock_reservation(os, line, resv), sale)
    /\ pc' = [step |-> "cancel", orders |-> os]
    /\ last' = [NoCall EXCEPT !.op = "cancel", !.orders = os]
    /\ Static

\* super().action_cancel(): the orders are cancelled
SuperActionCancel ==
    /\ pc.step = "cancel"
    /\ Recompute(line, resv,
                 [o \in Orders |-> IF o \in pc.orders
                                   THEN [sale[o] EXCEPT !.state = "cancel"]
                                   ELSE sale[o]])
    /\ pc' = Idle
    /\ UNCHANGED last
    /\ Static

\* the quotation of a draft order is sent: the order's state becomes 'sent',
\* the state _compute_stock_reservation names beside 'draft'
QuotationSent(o) ==
    /\ pc.step = "idle"
    /\ sale[o].state = "draft"
    /\ Recompute(line, resv, [sale EXCEPT ![o].state = "sent"])
    /\ last' = [NoCall EXCEPT !.op = "sent", !.orders = {o}]
    /\ UNCHANGED pc
    /\ Static

\* a stock.reservation created for the line outside
\* acquire_stock_reservation, from the line's values and not yet reserved: it
\* joins the line's reservation_ids
CreateReservation(l) ==
    /\ pc.step = "idle"
    /\ Len(resv[l]) < MaxResv
    /\ LET vals == prepare_stock_reservation(line, l)
       IN  Recompute(line,
                     [resv EXCEPT ![l] = Append(@,
                         [create_reserved(vals) EXCEPT
                             !.state = "draft", !.acquired = FALSE])],
                     sale)
    /\ last' = [NoCall EXCEPT !.op = "create", !.lines = {l}]
    /\ UNCHANGED pc
    /\ Static

\* ------------------------------------------------------- specifications
Vals == 1..MaxVal

\* the dictionaries written on lines
ValsPriceQty ==
    {("price_unit" :> v) : v \in Vals}
    \cup {("product_uom_qty" :> v) : v \in Vals}
    \cup {("price_unit" :> v) @@ ("product_uom_qty" :> v) : v \in Vals}

ValsProduct == {("product_id" :> p) : p \in Products \cup {NoProduct}}

Orderly ==
    \/ \E os \in (SUBSET Orders) \ {{}} : ActionConfirm(os)
    \/ SuperActionConfirm
    \/ \E os \in (SUBSET Orders) \ {{}} : ActionCancel(os)
    \/ SuperActionCancel

\* acquire, write of prices and quantities, release, confirm, cancel
Init == InitWith({TwoOrders}, {[l \in Lines |-> "goods"]},
                {DefaultRules}, {DefaultRoutes}, BOOLEAN)

Next ==
    \/ \E ls \in LineSeqs : Acquire(ls)
    \/ \E ls \in DistinctLineSeqs : Release(ls)
    \/ \E ls \in DistinctLineSeqs, vals \in ValsPriceQty : Write(ls, vals)
    \/ Orderly

Spec == Init /\ [][Next]_vars


\* writes that name a blocked field, the unit of measure, or both a blocked
\* field and the price
ValsGuard ==
    {("product_id" :> p) : p \in {"goods", "service"}}
    \cup {("type" :> "make_to_stock")}
    \cup {("product_uom_id" :> u) : u \in Uoms}
    \cup {("product_uom" :> u) : u \in Uoms}
    \cup {("product_id" :> "service") @@ ("price_unit" :> v) : v \in Vals}

\* the write guards: acquire, release and writes of guarded fields
InitGuard == InitWith({OneOrder}, {[l \in Lines |-> "goods"]},
                     {DefaultRules}, {DefaultRoutes}, BOOLEAN)

NextGuard ==
    \/ \E ls \in LineSeqs : Acquire(ls)
    \/ \E ls \in DistinctLineSeqs : Release(ls)
    \/ \E ls \in DistinctLineSeqs, vals \in ValsGuard : Write(ls, vals)

SpecGuard == InitGuard /\ [][NextGuard]_vars

\* the computed flags: every product on the lines, every state of the orders
InitFlags == InitWith({OneOrder}, {[l \in Lines |-> "goods"]},
                     {DefaultRules}, {DefaultRoutes}, BOOLEAN)

NextFlags ==
    \/ \E ls \in LineSeqs : Acquire(ls)
    \/ \E ls \in DistinctLineSeqs : Release(ls)
    \/ \E ls \in DistinctLineSeqs, vals \in ValsProduct : Write(ls, vals)
    \/ \E o \in Orders : QuotationSent(o)
    \/ Orderly

SpecFlags == InitFlags /\ [][NextFlags]_vars

\* lines with several reservations: reservations are also created directly
InitHost == InitWith({OneOrder}, {[l \in Lines |-> "goods"]},
                    {DefaultRules}, {DefaultRoutes}, {FALSE})

NextHost ==
    \/ \E ls \in DistinctLineSeqs, vals \in ValsPriceQty : Write(ls, vals)
    \/ \E l \in Lines : CreateReservation(l)

SpecHost == InitHost /\ [][NextHost]_vars

\* the rule lookup: every small rule table, with and without routes on the
\* product, its category and the warehouse
RuleUniverse ==
    [route_id : Routes, route_sequence : 1..2, sequence : 1..2,
     warehouse_id : Warehouses \cup {NoWarehouse},
     procure_method : {"make_to_stock", "make_to_order"}]

RECURSIVE SubsetsUpTo(_, _)
SubsetsUpTo(S, n) ==
    IF n = 0 THEN {{}}
    ELSE LET smaller == SubsetsUpTo(S, n - 1)
         IN  smaller \cup {x \cup {e} : x \in smaller, e \in S}

RouteConfigs ==
    {[product |-> [p \in Products |-> IF p = "goods" THEN pr ELSE {}],
      categ |-> [p \in Products |-> IF p = "goods" THEN cr ELSE {}],
      warehouse |-> [w \in Warehouses |-> IF w = "wh1" THEN wr ELSE {}]] :
        pr \in {{}, {"r1"}}, cr \in {{}, {"r2"}}, wr \in {{}, {"r1"}, {"r2"}}}

\* _get_procure_method (and through it _get_line_rule) called on line l
Lookup(l) ==
    /\ pc.step = "idle"
    /\ \E rule \in get_line_rule(line[l].product_id, line[l].order_id) :
        last' = [NoCall EXCEPT
                    !.op = "lookup", !.lines = {l}, !.rule = rule,
                    !.method = IF rule # <<>> THEN rule[1].procure_method
                               ELSE "False"]
    /\ UNCHANGED <<sale, line, resv, pc>>
    /\ Static

InitRule ==
    InitWith({OneOrder},
             {[l \in Lines |-> IF l = "l1" THEN "goods" ELSE NoProduct]},
             SubsetsUpTo(RuleUniverse, MaxRules), RouteConfigs, {FALSE})

NextRule == \E l \in Lines : Lookup(l)

SpecRule == InitRule /\ [][NextRule]_vars

\* ---------------------------------------------------------------- claims
\* C3: a line that has exactly one linked reservation has the quantity and the
\* unit price of that reservation, in every state reached by acquire, write,
\* release, confirm and cancel.
C3_LineMatchesReservation ==
    \A l \in Lines :
        Len(resv[l]) = 1 =>
            /\ resv[l][1].product_uom_qty = line[l].product_uom_qty
            /\ resv[l][1].price_unit = line[l].price_unit

\* a write of the price alone went through on a line with one reservation,
\* which holds the line's price and the line's (changed) quantity
C3_Witness ==
    /\ last.op = "write"
    /\ last.err = ""
    /\ last.keys = {"price_unit"}
    /\ \E l \in last.lines :
        /\ Len(resv[l]) = 1
        /\ line[l].price_unit = 2
        /\ line[l].product_uom_qty = 2
        /\ resv[l][1].price_unit = 2
        /\ resv[l][1].product_uom_qty = 2

\* C4: when the host's confirm or cancel step starts, every reservation linked
\* to a line of an order of the call has been released.
C4_ReleasedBeforeSuper ==
    pc.step \in {"confirm", "cancel"} =>
        \A l \in Lines :
            line[l].order_id \in pc.orders =>
                \A i \in DOMAIN resv[l] : resv[l][i].state = "cancel"

\* _action_confirm on both orders stands before super(), each order's line
\* with a released reservation still linked to it
C4_Witness ==
    /\ pc.step = "confirm"
    /\ pc.orders = Orders
    /\ \A l \in Lines : Len(resv[l]) = 1 /\ resv[l][1].state = "cancel"

\* the reservations of a line that acquire_stock_reservation made
Acquired(reservation_ids) ==
    {i \in DOMAIN reservation_ids : reservation_ids[i].acquired}

\* C9: acquire_stock_reservation creates one reservation for each
\* stock-reservable line of the call and none for any other line, and no line
\* ever has two reservations made by acquire linked to it.
C9_AcquireOncePerLine ==
    [][/\ last'.op = "acquire" =>
            \A l \in Lines :
                Len(resv'[l]) = Len(resv[l]) +
                    (IF l \in last'.lines /\ line[l].is_stock_reservable
                     THEN 1 ELSE 0)
       /\ \A l \in Lines : Cardinality(Acquired(resv'[l])) <= 1]_vars

\* acquire was called on both lines: one had a released reservation still
\* linked and got no new one, the other holds the reservation acquire made
C9_Witness ==
    /\ last.op = "acquire"
    /\ last.lines = Lines
    /\ \E l, m \in Lines :
        /\ Len(resv[l]) = 1 /\ resv[l][1].state = "cancel"
        /\ Len(resv[m]) = 1 /\ resv[m][1].state = "assigned"


\* C1: a write whose values name product_id or type, on lines of which at
\* least one has a linked reservation, is rejected with the user error and
\* changes no line, no reservation and no order.
C1_BlockedWriteChangesNothing ==
    [][(/\ last'.op = "write"
        /\ last'.keys \cap {"product_id", "type"} # {}
        /\ \E l \in last'.lines : resv[l] # <<>>)
       => (last'.err = "block" /\ UNCHANGED <<sale, line, resv>>)]_vars

\* a write naming product_id on both lines, one of them reserved and the other
\* not, was rejected
C1_Witness ==
    /\ last.op = "write"
    /\ "product_id" \in last.keys
    /\ last.err = "block"
    /\ last.lines = Lines
    /\ \E l, m \in Lines : resv[l] # <<>> /\ resv[m] = <<>>

\* C2: a write naming product_uom on a line with a linked reservation is
\* rejected with the user error, and the unit of measure of a line with a
\* linked reservation never changes.
C2_ReservedUomNeverChanges ==
    [][/\ (/\ last'.op = "write"
           /\ "product_uom" \in last'.keys
           /\ \E l \in last'.lines : resv[l] # <<>>)
          => last'.err = "block"
       /\ \A l \in Lines :
            resv[l] # <<>> => line'[l].product_uom = line[l].product_uom]_vars

\* what the claim says decides is_stock_reservable, given the procure method
\* of the line's applicable rule
C5_Reservable(l, procure_method) ==
    /\ line_state(line, sale, l) = "draft"
    /\ line[l].product_id # NoProduct
    /\ product_type(line[l].product_id) # "service"
    /\ procure_method # "make_to_order"
    /\ resv[l] = <<>>

\* C5: a line's is_stock_reservable is true exactly when the line is in state
\* draft, has a product that is not a service, the procure method of its
\* applicable rule is not make_to_order, and it has no linked reservation.
C5_LineFlag ==
    \A l \in Lines :
        \E pm \in get_procure_method(line[l].product_id, line[l].order_id) :
            line[l].is_stock_reservable = C5_Reservable(l, pm)

\* a draft order with a reservable line and a make_to_order line that is not
C5_Witness ==
    /\ sale["o1"].state = "draft"
    /\ \E l, m \in Lines :
        /\ line[l].is_stock_reservable
        /\ line[l].product_id = "goods"
        /\ line[m].product_id = "mto"
        /\ resv[m] = <<>>
        /\ ~line[m].is_stock_reservable

\* C6: an order's has_stock_reservation is true exactly when one of its lines
\* has a linked reservation, whatever the order's state; its
\* is_stock_reservable is true exactly when its state is draft or sent and one
\* of its lines is stock-reservable; an order without lines has both false.
C6_OrderFlags ==
    \A o \in Orders :
        LET lines == {l \in Lines : line[l].order_id = o}
        IN  /\ sale[o].has_stock_reservation = (\E l \in lines : resv[l] # <<>>)
            /\ sale[o].is_stock_reservable =
                   (/\ sale[o].state \in {"draft", "sent"}
                    /\ \E l \in lines : line[l].is_stock_reservable)
            /\ lines = {} =>
                   /\ ~sale[o].has_stock_reservation
                   /\ ~sale[o].is_stock_reservable

\* a draft order whose first line is reserved and whose second line is
\* reservable has both flags, beside an order without lines
C6_Witness ==
    /\ sale["o1"].state = "draft"
    /\ resv["l1"] # <<>>
    /\ line["l2"].is_stock_reservable
    /\ sale["o1"].has_stock_reservation
    /\ sale["o1"].is_stock_reservable
    /\ \A l \in Lines : line[l].order_id # "o2"
    /\ ~sale["o2"].has_stock_reservation

\* the rules of the first tier: those of a route of the product or of its
\* category
C7_ProductTier(l) ==
    LET p == line[l].product_id
    IN  IF p = NoProduct THEN {}
        ELSE {r \in rules : r.route_id \in routes.product[p]
                            \/ r.route_id \in routes.categ[p]}

\* the rules of the second tier: those of a route of the order's warehouse,
\* for that warehouse or for none
C7_WarehouseTier(l) ==
    LET wh == warehouse_id(line[l].order_id)
    IN  {r \in rules : /\ r.route_id \in routes.warehouse[wh]
                       /\ r.warehouse_id \in {wh, NoWarehouse}}

\* rule is a first rule of the tier in (route_sequence, sequence) order
C7_FirstOf(rule, tier) ==
    /\ rule # <<>>
    /\ rule[1] \in tier
    /\ \A q \in tier :
        \/ rule[1].route_sequence < q.route_sequence
        \/ /\ rule[1].route_sequence = q.route_sequence
           /\ rule[1].sequence <= q.sequence

\* C7: the rule lookup gives the first rule of the product tier when that tier
\* has a rule, otherwise the first rule of the warehouse tier, otherwise False
\* and the procure method False.
C7_TwoTierLookup ==
    last.op = "lookup" =>
        \A l \in last.lines :
            /\ IF C7_ProductTier(l) # {}
               THEN C7_FirstOf(last.rule, C7_ProductTier(l))
               ELSE IF C7_WarehouseTier(l) # {}
               THEN C7_FirstOf(last.rule, C7_WarehouseTier(l))
               ELSE last.rule = <<>> /\ last.method = "False"
            /\ last.rule # <<>> => last.method = last.rule[1].procure_method

\* the lookup fell back on the warehouse tier although the table holds a rule
\* for the warehouse that is none of the warehouse's routes
C7_Witness ==
    /\ last.op = "lookup"
    /\ \E l \in last.lines :
        /\ line[l].product_id # NoProduct
        /\ C7_ProductTier(l) = {}
        /\ last.rule # <<>>
        /\ last.rule[1].warehouse_id = NoWarehouse
        /\ \E r \in rules : r.warehouse_id = "wh1" /\ r \notin C7_WarehouseTier(l)

\* C8: a write naming price_unit or product_uom_qty on lines of which one has
\* several linked reservations raises the user error and adjusts no
\* reservation of any line of the call; lines with at most one reservation
\* raise no error.
C8_SeveralReservationsAdjustNothing ==
    [][(/\ last'.op = "write"
        /\ last'.keys \cap {"price_unit", "product_uom_qty"} # {})
       => /\ (\E l \in last'.lines : Len(resv[l]) > 1)
             => /\ last'.err = "several"
                /\ \A l \in last'.lines : resv'[l] = resv[l]
          /\ (\A l \in last'.lines : Len(resv[l]) <= 1)
             => last'.err = ""]_vars

\* a line of order o that the claim counts as reservable but for the state
C10_Eligible(l) ==
    /\ line[l].product_id # NoProduct
    /\ product_type(line[l].product_id) # "service"
    /\ "make_to_order" \notin
           get_procure_method(line[l].product_id, line[l].order_id)
    /\ resv[l] = <<>>

\* C10: an order in state sent with a line that has a non-service product, is
\* not make-to-order and has no reservation is stock-reservable, and
\* acquire_stock_reservation on such a line creates a reservation.
C10_SentLikeDraft ==
    [][/\ \A o \in Orders :
            (/\ sale[o].state = "sent"
             /\ \E l \in Lines : line[l].order_id = o /\ C10_Eligible(l))
            => sale[o].is_stock_reservable
       /\ last'.op = "acquire" =>
            \A l \in last'.lines :
                (line_state(line, sale, l) = "sent" /\ C10_Eligible(l))
                => Len(resv'[l]) = Len(resv[l]) + 1]_vars

=============================================================================
